---- MODULE Spec2Model ----
(***************************************************************************)
(* A model of moderation-discord-report (src/main.ts, lines 1-434): the   *)
(* fragment codec, the relative-time parser, and the three interaction    *)
(* handlers (report command, component click, modal submission) with one  *)
(* step per await.                                                        *)
(*                                                                         *)
(* A JavaScript string is a sequence of one-character strings, so that    *)
(* the regular expressions, split, join, toString and parseInt are        *)
(* computed character by character.                                       *)
(***************************************************************************)
EXTENDS Integers, Sequences, FiniteSets, TLC

(***************************************************************************)
(* Characters                                                              *)
(***************************************************************************)
LowerSeq == << "a","b","c","d","e","f","g","h","i","j","k","l","m",
               "n","o","p","q","r","s","t","u","v","w","x","y","z" >>
UpperSeq == << "A","B","C","D","E","F","G","H","I","J","K","L","M",
               "N","O","P","Q","R","S","T","U","V","W","X","Y","Z" >>
DigitSeq == << "0","1","2","3","4","5","6","7","8","9" >>

Range(f) == { f[i] : i \in DOMAIN f }

DigitChars == Range(DigitSeq)
\* \w of a JavaScript regular expression: [A-Za-z0-9_]
WordChars == Range(LowerSeq) \cup Range(UpperSeq) \cup DigitChars \cup {"_"}
\* \s, as far as the inputs of the model go: space, tab, line feed, carriage return
SpaceChars == {" ", "\t", "\n", "\r"}
\* the characters "." of a regular expression does not match
LineTerminators == {"\n", "\r"}

\* String.prototype.toLowerCase, character by character (ASCII)
ToLowerChar(c) ==
    IF c \in Range(UpperSeq)
    THEN LowerSeq[CHOOSE i \in DOMAIN UpperSeq : UpperSeq[i] = c]
    ELSE c
ToLowerCase(s) == [i \in DOMAIN s |-> ToLowerChar(s[i])]

\* String.prototype.toUpperCase, used only to write test inputs in upper case
ToUpperChar(c) ==
    IF c \in Range(LowerSeq)
    THEN UpperSeq[CHOOSE i \in DOMAIN LowerSeq : LowerSeq[i] = c]
    ELSE c
ToUpperCase(s) == [i \in DOMAIN s |-> ToUpperChar(s[i])]

\* The TLA+ string with the characters of s (a key of an object literal)
RECURSIVE Key(_)
Key(s) == IF s = <<>> THEN "" ELSE Head(s) \o Key(Tail(s))

DigitVal(c) == (CHOOSE i \in DOMAIN DigitSeq : DigitSeq[i] = c) - 1

\* Number.prototype.toString of a non-negative integer
RECURSIVE toString(_)
toString(n) ==
    IF n < 10 THEN << DigitSeq[n + 1] >>
    ELSE toString(n \div 10) \o << DigitSeq[(n % 10) + 1] >>

\* JavaScript values a number-returning function of the program can give
Num(n) == [kind |-> "number", val |-> n]
Null == [kind |-> "null", val |-> 0]
NaN == [kind |-> "NaN", val |-> 0]

\* the value of a string of decimal digits
RECURSIVE DigitsValue(_)
DigitsValue(s) ==
    IF s = <<>> THEN 0
    ELSE 10 * DigitsValue(SubSeq(s, 1, Len(s) - 1)) + DigitVal(s[Len(s)])

\* the longest prefix of s made of characters of cls
RECURSIVE PrefixLen(_, _)
PrefixLen(s, cls) ==
    IF s = <<>> \/ Head(s) \notin cls THEN 0 ELSE 1 + PrefixLen(Tail(s), cls)

\* parseInt(s), radix 10, of a string with no sign and no leading whitespace:
\* the value of the leading digits, NaN when there are none
ParseInt(s) ==
    LET n == PrefixLen(s, DigitChars)
    IN  IF n = 0 THEN NaN ELSE Num(DigitsValue(SubSeq(s, 1, n)))

(***************************************************************************)
(* Fragment codec                                                          *)
(***************************************************************************)
\* Array.prototype.join(sep)
RECURSIVE JoinWith(_, _)
JoinWith(args, sep) ==
    IF args = <<>> THEN <<>>
    ELSE IF Len(args) = 1 THEN args[1]
    ELSE args[1] \o sep \o JoinWith(Tail(args), sep)

\* String.prototype.split(sep) for a one-character separator
RECURSIVE SplitOn(_, _)
SplitOn(s, sep) ==
    IF \A i \in DOMAIN s : s[i] # sep THEN << s >>
    ELSE LET k == CHOOSE i \in DOMAIN s :
                    s[i] = sep /\ \A j \in 1..(i - 1) : s[j] # sep
         IN  << SubSeq(s, 1, k - 1) >> \o SplitOn(SubSeq(s, k + 1, Len(s)), sep)

\* encodeFragment joining the arguments with ", " instead of ","
encodeFragmentSpaced(name, args) ==
    name \o << "(" >> \o JoinWith(args, << ",", " " >>) \o << ")" >>

encodeFragment(name, args) == name \o << "(" >> \o JoinWith(args, << "," >>) \o << ")" >>

NoMatch == [matched |-> FALSE, name |-> <<>>, args |-> <<>>]

\* decodeFragment with (.*) for the argument group instead of (.+)
decodeFragmentStar(data) ==
    LET k == PrefixLen(data, WordChars)
        n == Len(data)
    IN  IF /\ k >= 1
           /\ n >= k + 2
           /\ data[k + 1] = "("
           /\ data[n] = ")"
           /\ \A i \in (k + 2)..(n - 1) : data[i] \notin LineTerminators
        THEN [matched |-> TRUE,
              name |-> SubSeq(data, 1, k),
              args |-> SplitOn(SubSeq(data, k + 2, n - 1), ",")]
        ELSE NoMatch

\* data.match(/^(\w+)\((.+)\)$/): the name is the longest run of word characters
\* at the start, a "(" follows it, the string ends in ")" and what lies between
\* is at least one character, none of them a line terminator
decodeFragment(data) ==
    LET k == PrefixLen(data, WordChars)
        n == Len(data)
    IN  IF /\ k >= 1
           /\ n >= k + 3
           /\ data[k + 1] = "("
           /\ data[n] = ")"
           /\ \A i \in (k + 2)..(n - 1) : data[i] \notin LineTerminators
        THEN [matched |-> TRUE,
              name |-> SubSeq(data, 1, k),
              args |-> SplitOn(SubSeq(data, k + 2, n - 1), ",")]
        ELSE NoMatch

(***************************************************************************)
(* Relative time                                                           *)
(***************************************************************************)
relativeTimeUnits ==
    [ y |-> 31104000, year |-> 31104000, years |-> 31104000,
      mo |-> 2592000, month |-> 2592000, months |-> 2592000,
      w |-> 604800, week |-> 604800, weeks |-> 604800,
      d |-> 86400, day |-> 86400, days |-> 86400,
      h |-> 3600, hour |-> 3600, hours |-> 3600,
      m |-> 60, min |-> 60, minute |-> 60, minutes |-> 60,
      s |-> 1, sec |-> 1, second |-> 1, seconds |-> 1 ]

\* Keys every object literal inherits from Object.prototype that are still
\* keys after toLowerCase; their values are objects: truthy, not numbers
InheritedKeys == {"constructor", "__proto__"}

\* relativeTimeUnits[unit]
UnitLookup(unit) ==
    LET k == Key(unit)
    IN  IF k \in DOMAIN relativeTimeUnits THEN Num(relativeTimeUnits[k])
        ELSE IF k \in InheritedKeys THEN NaN
        ELSE Null

\* the length of the run of characters of cls that starts at position p of s
RunLen(s, p, cls) == IF p > Len(s) THEN 0 ELSE PrefixLen(SubSeq(s, p, Len(s)), cls)

\* The ways /(\d+)\s*(\w+)/ matches starting exactly at position i of s.
\* <<j, k, e>>: the digits are s[i..j], the whitespace s[j+1..k], the word
\* s[k+1..e]; \w+ is greedy, so e is the end of the word run once j and k are
\* chosen. The backtracking matcher returns the one with the longest digit
\* run, then the longest whitespace run (MatchAt).
MatchesAt(s, i) ==
    { m \in { << j, k, k + RunLen(s, k + 1, WordChars) >> :
                j \in i..(i + RunLen(s, i, DigitChars) - 1),
                k \in i..Len(s) } :
        /\ m[1] <= m[2]
        /\ m[2] <= m[1] + RunLen(s, m[1] + 1, SpaceChars)
        /\ m[3] > m[2] }

Better(a, b) ==
    \/ a[1] > b[1]
    \/ a[1] = b[1] /\ a[2] > b[2]
    \/ a[1] = b[1] /\ a[2] = b[2] /\ a[3] > b[3]

MatchAt(s, i) ==
    CHOOSE m \in MatchesAt(s, i) : \A o \in MatchesAt(s, i) \ {m} : Better(m, o)

\* input.matchAll(relativeTimeRegex): the matches from left to right, each
\* search resuming after the previous match; <<time, unit>> per match
RECURSIVE MatchAllFrom(_, _)
MatchAllFrom(s, from) ==
    LET starts == { i \in from..Len(s) : MatchesAt(s, i) # {} }
    IN  IF starts = {} THEN <<>>
        ELSE LET i == CHOOSE x \in starts : \A y \in starts : x <= y
                 m == MatchAt(s, i)
             IN  << << SubSeq(s, i, m[1]), SubSeq(s, m[2] + 1, m[3]) >> >>
                     \o MatchAllFrom(s, m[3] + 1)

relativeTimeRegex(s) == MatchAllFrom(s, 1)

\* the for loop of parseRelativeTime over the matches, result so far in acc
RECURSIVE SumMatches(_, _)
SumMatches(ms, acc) ==
    IF ms = <<>> THEN acc
    ELSE LET unitMultiplier == UnitLookup(Head(ms)[2])
             time == DigitsValue(Head(ms)[1])
         IN  IF unitMultiplier.kind = "null" THEN Null
             ELSE IF unitMultiplier.kind = "NaN" \/ acc.kind = "NaN"
                  THEN SumMatches(Tail(ms), NaN)
             ELSE SumMatches(Tail(ms), Num(acc.val + time * unitMultiplier.val))

\* parseRelativeTime without the toLowerCase of line 93
parseRelativeTimeCaseSensitive(input) ==
    IF relativeTimeRegex(input) = <<>> THEN Null
    ELSE SumMatches(relativeTimeRegex(input), Num(0))

parseRelativeTime(input) ==
    IF relativeTimeRegex(input) = <<>> THEN Null
    ELSE SumMatches(relativeTimeRegex(ToLowerCase(input)), Num(0))

(***************************************************************************)
(* State                                                                   *)
(***************************************************************************)
VARIABLES
    reports,    \* the messages posted in the reports channel, in order
    logs,       \* the entries posted in the logs channel, in order
    actions,    \* the Action Requests the moderation API recorded, in order
    modals,     \* the modals presented to reviewers and not yet submitted
    tasks,      \* one record per handler invocation, in order of arrival
    crashed,    \* the process ended on an unhandled rejection
    fragIn,     \* codec harness: the {name, args} given to encodeFragment
    fragData,   \* codec harness: the string given to decodeFragment
    fragOut,    \* codec harness: what decodeFragment returned
    fragPc,     \* codec harness: "idle", "start", "encoded", "decoded"
    timeGen,    \* parser harness: the tokens the input was written from
    timeIn,     \* parser harness: the string given to parseRelativeTime
    timeOut,    \* parser harness: what parseRelativeTime returned
    timePc      \* parser harness: "idle", "start", "parsed"

hvars == << reports, logs, actions, modals, tasks, crashed >>
fvars == << fragIn, fragData, fragOut, fragPc >>
tvars == << timeGen, timeIn, timeOut, timePc >>
vars == << reports, logs, actions, modals, tasks, crashed,
           fragIn, fragData, fragOut, fragPc, timeGen, timeIn, timeOut, timePc >>

\* all strings of at most n characters over the alphabet A
StringsUpTo(A, n) == UNION { [1..k -> A] : k \in 0..n }

NoFragIn == [given |-> FALSE, name |-> <<>>, args |-> <<>>]
NoTimeGen == [given |-> FALSE, tokens |-> <<>>, sep |-> <<>>, upper |-> FALSE]

HandlersIdle ==
    /\ reports = <<>> /\ logs = <<>> /\ actions = <<>>
    /\ modals = {} /\ tasks = <<>> /\ crashed = FALSE
CodecIdle ==
    /\ fragIn = NoFragIn /\ fragData = <<>> /\ fragOut = NoMatch /\ fragPc = "idle"
TimeIdle ==
    /\ timeGen = NoTimeGen /\ timeIn = <<>> /\ timeOut = Null /\ timePc = "idle"

(***************************************************************************)
(* The codec on bounded inputs                                             *)
(***************************************************************************)
MaxFragLen == 4
MaxDataLen == 5

S_accept == << "a","c","c","e","p","t" >>
S_decline == << "d","e","c","l","i","n","e" >>

\* names given to encodeFragment: the two the program uses and short ones
FragNames == { S_accept, S_decline, << "a" >>, << "_", "7" >> }
\* characters of the arguments; ArgBreak separates two arguments in the
\* string an argument list is written from, and is no character
ArgChars == { "a", ",", "(", ")", "\n" }
ArgBreak == "<break>"
FragArgLists ==
    { <<>> } \cup { SplitOn(r, ArgBreak) : r \in StringsUpTo(ArgChars \cup {ArgBreak}, MaxFragLen) }
DataChars == { "a", "(", ")", ",", "\n" }

CodecInit ==
    /\ HandlersIdle /\ TimeIdle
    /\ fragPc = "start"
    /\ fragOut = NoMatch
    /\ \/ /\ fragIn \in { [given |-> TRUE, name |-> n, args |-> a] :
                            n \in FragNames, a \in FragArgLists }
          /\ fragData = <<>>
       \/ /\ fragIn = NoFragIn
          /\ fragData \in StringsUpTo(DataChars, MaxDataLen)

Encode ==
    /\ fragPc = "start" /\ fragIn.given
    /\ fragData' = encodeFragment(fragIn.name, fragIn.args)
    /\ fragPc' = "encoded"
    /\ UNCHANGED << fragIn, fragOut >>

Decode ==
    /\ \/ fragPc = "encoded"
       \/ fragPc = "start" /\ ~fragIn.given
    /\ fragOut' = decodeFragment(fragData)
    /\ fragPc' = "decoded"
    /\ UNCHANGED << fragIn, fragData >>

CodecNext == (Encode \/ Decode) /\ UNCHANGED << hvars, tvars >>
SpecCodec == CodecInit /\ [][CodecNext]_vars

(***************************************************************************)
(* The parser on bounded inputs                                            *)
(***************************************************************************)
MaxTokens == 2
MaxValue == 2
MaxTimeLen == 4

\* the keys of relativeTimeUnits, as strings of characters
UnitNames ==
    { << "y" >>, << "y","e","a","r" >>, << "y","e","a","r","s" >>,
      << "m","o" >>, << "m","o","n","t","h" >>, << "m","o","n","t","h","s" >>,
      << "w" >>, << "w","e","e","k" >>, << "w","e","e","k","s" >>,
      << "d" >>, << "d","a","y" >>, << "d","a","y","s" >>,
      << "h" >>, << "h","o","u","r" >>, << "h","o","u","r","s" >>,
      << "m" >>, << "m","i","n" >>, << "m","i","n","u","t","e" >>,
      << "m","i","n","u","t","e","s" >>,
      << "s" >>, << "s","e","c" >>, << "s","e","c","o","n","d" >>,
      << "s","e","c","o","n","d","s" >> }
\* units of the inputs written from several tokens
ShortUnits == { << "w" >>, << "d" >>, << "h" >>, << "m","o" >>, << "m","i","n" >>,
                << "d","a","y","s" >>, << "f","o","o","s" >> }
\* what stands between two tokens of an input: whitespace, or nothing
Separators == { << " " >>, << " ", " " >>, << "\t" >>, <<>> }

TokensOver(units) == [n : 0..MaxValue, unit : units]
TokenLists ==
    [1..1 -> TokensOver(UnitNames \cup ShortUnits)]
        \cup UNION { [1..k -> TokensOver(ShortUnits)] : k \in 2..MaxTokens }

\* the text of one token: <integer><unit>
TokenText(tk) == toString(tk.n) \o tk.unit
\* the input a token list is written as
WriteTokens(g) ==
    LET text == JoinWith([i \in DOMAIN g.tokens |-> TokenText(g.tokens[i])], g.sep)
    IN  IF g.upper THEN ToUpperCase(text) ELSE text

S_5foos == << "5"," ","f","o","o","s" >>
S_1h == << "1","h" >>
S_1constructor == << "1","c","o","n","s","t","r","u","c","t","o","r" >>
TimeChars == { "1", "2", "d", "h", " " }
TimeExamples == { S_5foos, S_1constructor, << "1","d"," ","2","h" >>, << "-","1","d" >> }

TimeInit ==
    /\ HandlersIdle /\ CodecIdle
    /\ timePc = "start"
    /\ timeOut = Null
    /\ \/ /\ timeGen \in { [given |-> TRUE, tokens |-> tl, sep |-> sp, upper |-> up] :
                             tl \in TokenLists, sp \in Separators, up \in BOOLEAN }
          /\ timeIn = WriteTokens(timeGen)
       \/ /\ timeGen = NoTimeGen
          /\ timeIn \in StringsUpTo(TimeChars, MaxTimeLen) \cup TimeExamples

Parse ==
    /\ timePc = "start"
    /\ timeOut' = parseRelativeTime(timeIn)
    /\ timePc' = "parsed"
    /\ UNCHANGED << timeGen, timeIn >>

TimeNext == Parse /\ UNCHANGED << hvars, fvars >>
SpecTime == TimeInit /\ [][TimeNext]_vars

(***************************************************************************)
(* The interaction handlers                                                *)
(***************************************************************************)
MaxEvents == 4
MaxCommands == 2
MaxInFlight == 2

SizeCeiling == 25000000

Submitter == "u1"
Reviewers == { "r1", "r2" }
\* what the report command is given: a username and the size of the attachment
CommandInputs ==
    { [username |-> "alice", size |-> SizeCeiling],
      [username |-> "alice", size |-> SizeCeiling + 1],
      [username |-> "ghost", size |-> SizeCeiling] }
\* getIdFromUsername: the names that resolve, and their ids
UserIds == [ alice |-> 42 ]

S_BAN == << "B","A","N" >>
S_DRAWBAN == << "D","R","A","W","B","A","N" >>
S_MUTE == << "M","U","T","E" >>
\* options.duration when the submitted modal has no duration component, as the
\* modal of lines 651-680 (reason and notes only, same custom_id): undefined
AbsentField == << "<undefined>" >>
\* the values of the modal's duration field the reviewers type
DurationInputs == { S_1h, << "s","o","o","n" >>, AbsentField }
\* identifiers of components and modals that are not this program's
ForeignIds == { S_accept \o << "(", ")" >> }

Undefined == [kind |-> "undefined", val |-> 0]
\* x ?? undefined
OrUndefined(x) == IF x.kind = "null" THEN Undefined ELSE x

\* the id the platform gives the k-th message of the reports channel
MsgId(k) == << "9" >> \o toString(k)
\* the message of the reports channel with this id, 0 when there is none
FindMessage(idStr) ==
    IF \E k \in DOMAIN reports : MsgId(k) = idStr
    THEN CHOOSE k \in DOMAIN reports : MsgId(k) = idStr
    ELSE 0
Exists(k) == k \in DOMAIN reports /\ ~reports[k].deleted

\* const [ a, b, c ] = fragment.args: a missing element is undefined, which
\* join and parseInt read as the empty string
Arg(args, i) == IF i \in DOMAIN args THEN args[i] ELSE <<>>

NoInput == [username |-> "", size |-> 0, duration |-> <<>>]
NoSrc == [msg |-> 0, button |-> 0]

\* A handler invocation as it starts. msg: the message the interaction came
\* from; src: the report and the button a modal goes back to (history, the
\* program does not read it); goneAtStart: the report was already deleted
\* when the event arrived (history)
NewTask(kind, user, customId, msg, input, src, pc, gone) ==
    [ kind |-> kind, user |-> user, pc |-> pc, customId |-> customId,
      fragment |-> IF kind = "command" THEN NoMatch ELSE decodeFragment(customId),
      msg |-> msg, input |-> input, src |-> src, id |-> 0, found |-> 0,
      reply |-> "none", effects |-> {}, threwAt |-> "none", goneAtStart |-> gone ]

Running(t) == ~crashed /\ t \in DOMAIN tasks
InFlight == { t \in DOMAIN tasks : tasks[t].pc \notin {"done", "threw"} }
\* the reports someone deleted by hand
OutOfBand == { k \in DOMAIN reports : reports[k].deletedBy = -1 }
\* the events so far: the interactions received and the deletions by hand
Events == Len(tasks) + Cardinality(OutOfBand)
Commands == { t \in DOMAIN tasks : tasks[t].kind = "command" }
\* an event may arrive while fewer than n have
CanArriveWithin(n) ==
    /\ ~crashed
    /\ Events < n
    /\ Cardinality(InFlight) < MaxInFlight
CanArrive == CanArriveWithin(MaxEvents)
CanReport == CanArrive /\ Cardinality(Commands) < MaxCommands
\* the reviewers who may act next: the reviewers are interchangeable, so the
\* first one to act is r1
Acting ==
    IF \E t \in DOMAIN tasks : tasks[t].user = "r1" THEN Reviewers ELSE {"r1"}

\* A rejection nothing catches: with make-promises-safe the process exits
Throw(t, at) ==
    /\ tasks' = [tasks EXCEPT ![t].pc = "threw", ![t].threwAt = at,
                              ![t].effects = @ \cup {at}]
    /\ crashed' = TRUE

Step(t, pc, effects) ==
    tasks' = [tasks EXCEPT ![t].pc = pc, ![t].effects = @ \cup effects]
Reply(t, reply, effects) ==
    tasks' = [tasks EXCEPT ![t].pc = "done", ![t].reply = reply,
                           ![t].effects = @ \cup effects]

(***************** the report command, lines 156-265 *****************)
ReportCommand ==
    /\ CanReport
    /\ \E in \in CommandInputs :
        tasks' = Append(tasks,
            NewTask("command", Submitter, <<>>, 0,
                    [NoInput EXCEPT !.username = in.username, !.size = in.size],
                    NoSrc, "deferReply", FALSE))
    /\ UNCHANGED << reports, logs, actions, modals, crashed >>
    /\ UNCHANGED << fvars, tvars >>

\* SizeCheck with >= in the place of >
SizeCheckInclusive(size) == IF size >= SizeCeiling THEN "size_error" ELSE "getIdFromUsername"

\* where the command goes after deferReply: the size check of line 166
SizeCheck(size) == IF size > SizeCeiling THEN "size_error" ELSE "getIdFromUsername"

CommandDeferred(t) ==
    /\ Running(t) /\ tasks[t].pc = "deferReply"
    /\ IF SizeCheck(tasks[t].input.size) = "size_error"
       THEN Reply(t, "size_error", {"deferReply"})
       ELSE Step(t, "getIdFromUsername", {"deferReply"})
    /\ UNCHANGED << reports, logs, actions, modals, crashed >>
    /\ UNCHANGED << fvars, tvars >>

CommandGetId(t) ==
    /\ Running(t) /\ tasks[t].pc = "getIdFromUsername"
    /\ IF tasks[t].input.username \in DOMAIN UserIds
       THEN tasks' = [tasks EXCEPT ![t].pc = "getPlayerInfo",
                                   ![t].id = UserIds[tasks[t].input.username],
                                   ![t].effects = @ \cup {"getIdFromUsername"}]
       ELSE Reply(t, "invalid_username", {"getIdFromUsername"})
    /\ UNCHANGED << reports, logs, actions, modals, crashed >>
    /\ UNCHANGED << fvars, tvars >>

\* CommandProfile without the return of line 207
CommandProfileNoReturn(t) ==
    /\ Running(t) /\ tasks[t].pc = "getPlayerInfo"
    /\ \/ Step(t, "downloadAttachment", {"getPlayerInfo"})
       \/ tasks' = [tasks EXCEPT ![t].pc = "downloadAttachment",
                                 ![t].reply = "profile_error",
                                 ![t].effects = @ \cup {"getPlayerInfo"}]
    /\ UNCHANGED << reports, logs, actions, modals, crashed >>
    /\ UNCHANGED << fvars, tvars >>

CommandProfile(t) ==
    /\ Running(t) /\ tasks[t].pc = "getPlayerInfo"
    /\ \/ Step(t, "downloadAttachment", {"getPlayerInfo"})
       \/ Reply(t, "profile_error", {"getPlayerInfo"})
    /\ UNCHANGED << reports, logs, actions, modals, crashed >>
    /\ UNCHANGED << fvars, tvars >>

CommandDownload(t) ==
    /\ Running(t) /\ tasks[t].pc = "downloadAttachment"
    /\ \/ Step(t, "channel.send", {"downloadAttachment"}) /\ UNCHANGED crashed
       \/ Throw(t, "downloadAttachment")
    /\ UNCHANGED << reports, logs, actions, modals >>
    /\ UNCHANGED << fvars, tvars >>

\* ButtonIds with the decline button carrying no argument
ButtonIdsBareDecline(id) ==
    << encodeFragment(S_accept, << toString(id), S_BAN >>),
       encodeFragment(S_accept, << toString(id), S_DRAWBAN >>),
       encodeFragment(S_accept, << toString(id), S_MUTE >>),
       encodeFragment(S_decline, << >>) >>

\* the customIds of the four buttons, lines 236-258
ButtonIds(id) ==
    << encodeFragment(S_accept, << toString(id), S_BAN >>),
       encodeFragment(S_accept, << toString(id), S_DRAWBAN >>),
       encodeFragment(S_accept, << toString(id), S_MUTE >>),
       encodeFragment(S_decline, << toString(id) >>) >>
\* the action type each button stands for (history)
ButtonTypes == << S_BAN, S_DRAWBAN, S_MUTE >>

CommandSend(t) ==
    /\ Running(t) /\ tasks[t].pc = "channel.send"
    /\ reports' = Append(reports,
            [ subject |-> tasks[t].id, title |-> tasks[t].input.username,
              url |-> tasks[t].id, from |-> tasks[t].user, sentBy |-> t,
              customIds |-> ButtonIds(tasks[t].id),
              deleted |-> FALSE, deletedBy |-> 0 ])
    /\ Reply(t, "sent", {"channel.send"})
    /\ UNCHANGED << logs, actions, modals, crashed >>
    /\ UNCHANGED << fvars, tvars >>

(***************** a component click, lines 267-355 *****************)
\* ComponentEntry without the return of line 269
ComponentEntryUnchecked(fragment) == "channels.fetch"

\* lines 268-269: where a click goes after decodeFragment
ComponentEntry(fragment) == IF ~fragment.matched THEN "done" ELSE "channels.fetch"

\* a reviewer clicks button i of report k; the report may be gone already
\* and still shown on the reviewer's screen
Click(buttons, n) ==
    /\ CanArriveWithin(n)
    /\ \E r \in Acting, k \in DOMAIN reports, i \in buttons :
        LET cid == reports[k].customIds[i]
        IN  tasks' = Append(tasks,
                NewTask("component", r, cid, k, NoInput, [msg |-> k, button |-> i],
                        ComponentEntry(decodeFragment(cid)), ~Exists(k)))
    /\ UNCHANGED << reports, logs, actions, modals, crashed >>
    /\ UNCHANGED << fvars, tvars >>

ClickButton == Click(1..4, MaxEvents)

ClickForeign ==
    /\ CanArrive
    /\ \E r \in Acting, cid \in ForeignIds :
        tasks' = Append(tasks,
            NewTask("component", r, cid, 0, NoInput, NoSrc,
                    ComponentEntry(decodeFragment(cid)), FALSE))
    /\ UNCHANGED << reports, logs, actions, modals, crashed >>
    /\ UNCHANGED << fvars, tvars >>

\* lines 271-274 and 329: the branch on fragment.name
ComponentBranch(fragment) ==
    IF fragment.name = S_accept THEN "modal.post"
    ELSE IF fragment.name = S_decline THEN "messages.fetch"
    ELSE "done"

ComponentChannels(t) ==
    /\ Running(t) /\ tasks[t].kind = "component" /\ tasks[t].pc = "channels.fetch"
    /\ Step(t, ComponentBranch(tasks[t].fragment), {"channels.fetch"})
    /\ UNCHANGED << reports, logs, actions, modals, crashed >>
    /\ UNCHANGED << fvars, tvars >>

\* ModalCustomId without the id of the message
ModalCustomIdNoOrigin(tk) ==
    encodeFragment(S_accept, << Arg(tk.fragment.args, 1), Arg(tk.fragment.args, 2) >>)

\* ModalCustomId with the type before the id
ModalCustomIdSwapped(tk) ==
    encodeFragment(S_accept,
        << Arg(tk.fragment.args, 2), Arg(tk.fragment.args, 1), MsgId(tk.msg) >>)

\* line 284: the custom_id of the modal
ModalCustomId(tk) ==
    encodeFragment(S_accept,
        << Arg(tk.fragment.args, 1), Arg(tk.fragment.args, 2), MsgId(tk.msg) >>)

\* AcceptModal that records the action at the click
AcceptModalSanctions(t) ==
    /\ Running(t) /\ tasks[t].kind = "component" /\ tasks[t].pc = "modal.post"
    /\ modals' = modals \cup
            { [custom_id |-> ModalCustomId(tasks[t]), reviewer |-> tasks[t].user,
               src |-> tasks[t].src] }
    /\ actions' = Append(actions,
            [ actor |-> tasks[t].user,
              target |-> ParseInt(Arg(tasks[t].fragment.args, 1)),
              type |-> Arg(tasks[t].fragment.args, 2),
              duration |-> Undefined, by |-> t ])
    /\ Reply(t, "modal", {"modal.post"})
    /\ UNCHANGED << reports, logs, crashed >>
    /\ UNCHANGED << fvars, tvars >>

AcceptModal(t) ==
    /\ Running(t) /\ tasks[t].kind = "component" /\ tasks[t].pc = "modal.post"
    /\ modals' = modals \cup
            { [custom_id |-> ModalCustomId(tasks[t]), reviewer |-> tasks[t].user,
               src |-> tasks[t].src] }
    /\ Reply(t, "modal", {"modal.post"})
    /\ UNCHANGED << reports, logs, actions, crashed >>
    /\ UNCHANGED << fvars, tvars >>

\* line 330: messages.fetch of a message that is gone rejects (the platform
\* answers Unknown Message); line 332 also provides for a falsy result
DeclineFetch(t) ==
    /\ Running(t) /\ tasks[t].kind = "component" /\ tasks[t].pc = "messages.fetch"
    /\ IF Exists(tasks[t].msg)
       THEN /\ tasks' = [tasks EXCEPT ![t].pc = "logs.send", ![t].found = tasks[t].msg,
                                      ![t].effects = @ \cup {"messages.fetch"}]
            /\ UNCHANGED crashed
       ELSE \/ Throw(t, "messages.fetch")
            \/ Step(t, "editReply", {"messages.fetch"}) /\ UNCHANGED crashed
    /\ UNCHANGED << reports, logs, actions, modals >>
    /\ UNCHANGED << fvars, tvars >>

LogEntry(kind, t) ==
    [ kind |-> kind, by |-> t, reviewer |-> tasks[t].user, msg |-> tasks[t].found,
      title |-> reports[tasks[t].found].title, url |-> reports[tasks[t].found].url ]

\* DeclineLog with a failed send caught and the handler going on
DeclineLogFailureCaught(t) ==
    /\ Running(t) /\ tasks[t].kind = "component" /\ tasks[t].pc = "logs.send"
    /\ \/ logs' = Append(logs, LogEntry("Declined", t))
       \/ UNCHANGED logs
    /\ Step(t, "message.delete", {"logs.send"})
    /\ UNCHANGED << reports, actions, modals, crashed >>
    /\ UNCHANGED << fvars, tvars >>

\* line 336: the send either posts the entry or rejects; nothing catches it
DeclineLog(t) ==
    /\ Running(t) /\ tasks[t].kind = "component" /\ tasks[t].pc = "logs.send"
    /\ \/ /\ logs' = Append(logs, LogEntry("Declined", t))
          /\ Step(t, "message.delete", {"logs.send"})
          /\ UNCHANGED crashed
       \/ /\ Throw(t, "logs.send")
          /\ UNCHANGED logs
    /\ UNCHANGED << reports, actions, modals >>
    /\ UNCHANGED << fvars, tvars >>

\* message.delete() of a message that is gone rejects
Delete(t, next) ==
    IF Exists(tasks[t].found)
    THEN /\ reports' = [reports EXCEPT ![tasks[t].found].deleted = TRUE,
                                       ![tasks[t].found].deletedBy = t]
         /\ Step(t, next, {"message.delete"})
         /\ UNCHANGED crashed
    ELSE /\ Throw(t, "message.delete")
         /\ UNCHANGED reports

DeclineDelete(t) ==
    /\ Running(t) /\ tasks[t].kind = "component" /\ tasks[t].pc = "message.delete"
    /\ Delete(t, "done")
    /\ UNCHANGED << logs, actions, modals >>
    /\ UNCHANGED << fvars, tvars >>

DeclineNotFound(t) ==
    /\ Running(t) /\ tasks[t].kind = "component" /\ tasks[t].pc = "editReply"
    /\ Reply(t, "message_not_found", {"editReply"})
    /\ UNCHANGED << reports, logs, actions, modals, crashed >>
    /\ UNCHANGED << fvars, tvars >>

(***************** a modal submission, lines 359-434 *****************)
\* lines 362-366: where a submission goes after decodeFragment
ModalEntry(fragment) ==
    IF ~fragment.matched THEN "done"
    ELSE IF fragment.name = S_accept THEN "createAction"
    ELSE "done"

\* a reviewer submits a modal the program presented
Submit(n) ==
    /\ CanArriveWithin(n)
    /\ \E m \in modals, d \in DurationInputs :
        /\ modals' = modals \ {m}
        /\ tasks' = Append(tasks,
                NewTask("modal", m.reviewer, m.custom_id, 0,
                        [NoInput EXCEPT !.duration = d], m.src,
                        ModalEntry(decodeFragment(m.custom_id)), ~Exists(m.src.msg)))
    /\ UNCHANGED << reports, logs, actions, crashed >>
    /\ UNCHANGED << fvars, tvars >>

SubmitModal == Submit(MaxEvents)

SubmitForeignModal ==
    /\ CanArrive
    /\ \E r \in Acting, cid \in ForeignIds :
        tasks' = Append(tasks,
            NewTask("modal", r, cid, 0, NoInput, NoSrc,
                    ModalEntry(decodeFragment(cid)), FALSE))
    /\ UNCHANGED << reports, logs, actions, modals, crashed >>
    /\ UNCHANGED << fvars, tvars >>

\* lines 387-392: the Action Request
ActionRequest(t) ==
    [ actor |-> tasks[t].user,
      target |-> ParseInt(Arg(tasks[t].fragment.args, 1)),
      type |-> Arg(tasks[t].fragment.args, 2),
      duration |-> OrUndefined(parseRelativeTime(tasks[t].input.duration)),
      by |-> t ]

\* CreateActionRejected with the rejection caught and the handler going on
CreateActionRejectedCaught(tk) ==
    [tk EXCEPT !.pc = "messages.fetch",
               !.effects = @ \cup {"createAction", "createAction:rejected"}]

\* the task after createAction rejected: nothing catches it
CreateActionRejected(tk) ==
    [tk EXCEPT !.pc = "threw", !.threwAt = "createAction",
               !.effects = @ \cup {"createAction", "createAction:rejected"}]

ModalCreateAction(t) ==
    /\ Running(t) /\ tasks[t].kind = "modal" /\ tasks[t].pc = "createAction"
    /\ \/ /\ tasks[t].input.duration = AbsentField
          \* line 87: input.match on undefined is a TypeError
          /\ Throw(t, "parseRelativeTime")
          /\ UNCHANGED actions
       \/ /\ tasks[t].input.duration # AbsentField
          /\ actions' = Append(actions, ActionRequest(t))
          /\ Step(t, "messages.fetch", {"createAction", "channels.fetch"})
          /\ UNCHANGED crashed
       \/ /\ tasks[t].input.duration # AbsentField
          /\ tasks' = [tasks EXCEPT ![t] = CreateActionRejected(tasks[t])]
          /\ crashed' = (tasks'[t].pc = "threw")
          /\ UNCHANGED actions
    /\ UNCHANGED << reports, logs, modals >>
    /\ UNCHANGED << fvars, tvars >>

\* line 399: no catch, and no test of the result
ModalFetch(t) ==
    /\ Running(t) /\ tasks[t].kind = "modal" /\ tasks[t].pc = "messages.fetch"
    /\ LET k == FindMessage(Arg(tasks[t].fragment.args, 3))
       IN  IF Exists(k)
           THEN /\ tasks' = [tasks EXCEPT ![t].pc = "logs.send", ![t].found = k,
                                          ![t].effects = @ \cup {"messages.fetch"}]
                /\ UNCHANGED crashed
           ELSE Throw(t, "messages.fetch")
    /\ UNCHANGED << reports, logs, actions, modals >>
    /\ UNCHANGED << fvars, tvars >>

\* line 406: the send either posts the entry or rejects; nothing catches it
ModalLog(t) ==
    /\ Running(t) /\ tasks[t].kind = "modal" /\ tasks[t].pc = "logs.send"
    /\ \/ /\ logs' = Append(logs, LogEntry("Accepted", t))
          /\ Step(t, "message.delete", {"logs.send"})
          /\ UNCHANGED crashed
       \/ /\ Throw(t, "logs.send")
          /\ UNCHANGED logs
    /\ UNCHANGED << reports, actions, modals >>
    /\ UNCHANGED << fvars, tvars >>

ModalDelete(t) ==
    /\ Running(t) /\ tasks[t].kind = "modal" /\ tasks[t].pc = "message.delete"
    /\ Delete(t, "ack")
    /\ UNCHANGED << logs, actions, modals >>
    /\ UNCHANGED << fvars, tvars >>

ModalAck(t) ==
    /\ Running(t) /\ tasks[t].kind = "modal" /\ tasks[t].pc = "ack"
    /\ Reply(t, "ack", {"ack"})
    /\ UNCHANGED << reports, logs, actions, modals, crashed >>
    /\ UNCHANGED << fvars, tvars >>

(***************** the platform *****************)
\* someone with the permission deletes a report by hand
DeleteOutOfBand ==
    /\ ~crashed
    /\ Events < MaxEvents
    /\ \E k \in DOMAIN reports :
        /\ Exists(k)
        /\ reports' = [reports EXCEPT ![k].deleted = TRUE, ![k].deletedBy = -1]
    /\ UNCHANGED << logs, actions, modals, tasks, crashed >>
    /\ UNCHANGED << fvars, tvars >>

Init == HandlersIdle /\ CodecIdle /\ TimeIdle

Next ==
    \/ ReportCommand
    \/ ClickButton
    \/ ClickForeign
    \/ SubmitModal
    \/ SubmitForeignModal
    \/ DeleteOutOfBand
    \/ \E t \in DOMAIN tasks : CommandDeferred(t)
    \/ \E t \in DOMAIN tasks : CommandGetId(t)
    \/ \E t \in DOMAIN tasks : CommandProfile(t)
    \/ \E t \in DOMAIN tasks : CommandDownload(t)
    \/ \E t \in DOMAIN tasks : CommandSend(t)
    \/ \E t \in DOMAIN tasks : ComponentChannels(t)
    \/ \E t \in DOMAIN tasks : AcceptModal(t)
    \/ \E t \in DOMAIN tasks : DeclineFetch(t)
    \/ \E t \in DOMAIN tasks : DeclineLog(t)
    \/ \E t \in DOMAIN tasks : DeclineDelete(t)
    \/ \E t \in DOMAIN tasks : DeclineNotFound(t)
    \/ \E t \in DOMAIN tasks : ModalCreateAction(t)
    \/ \E t \in DOMAIN tasks : ModalFetch(t)
    \/ \E t \in DOMAIN tasks : ModalLog(t)
    \/ \E t \in DOMAIN tasks : ModalDelete(t)
    \/ \E t \in DOMAIN tasks : ModalAck(t)

Spec == Init /\ [][Next]_vars

(***************************************************************************)
(* The accept flow on one report: the program after one report command for *)
(* a resolvable username has posted its report, then only accept clicks    *)
(* and modal submissions arrive                                            *)
(***************************************************************************)
MaxAcceptEvents == 5

\* the report command that has run to its end
PostedTask ==
    [ NewTask("command", Submitter, << >>, 0,
              [NoInput EXCEPT !.username = "alice", !.size = SizeCeiling],
              NoSrc, "done", FALSE)
        EXCEPT !.id = UserIds["alice"], !.reply = "sent",
               !.effects = { "deferReply", "getIdFromUsername", "getPlayerInfo",
                             "downloadAttachment", "channel.send" } ]
\* the report message it posted
PostedReport ==
    [ subject |-> UserIds["alice"], title |-> "alice", url |-> UserIds["alice"],
      from |-> Submitter, sentBy |-> 1, customIds |-> ButtonIds(UserIds["alice"]),
      deleted |-> FALSE, deletedBy |-> 0 ]
Posted == tasks = << PostedTask >> /\ reports = << PostedReport >>

AcceptInit ==
    /\ Posted
    /\ logs = << >> /\ actions = << >> /\ modals = {} /\ crashed = FALSE
    /\ CodecIdle /\ TimeIdle

AcceptClick == Click(1..3, MaxAcceptEvents)
AcceptSubmit == Submit(MaxAcceptEvents)

AcceptNext ==
    \/ AcceptClick
    \/ AcceptSubmit
    \/ \E t \in DOMAIN tasks : ComponentChannels(t)
    \/ \E t \in DOMAIN tasks : AcceptModal(t)
    \/ \E t \in DOMAIN tasks : ModalCreateAction(t)
    \/ \E t \in DOMAIN tasks : ModalFetch(t)
    \/ \E t \in DOMAIN tasks : ModalLog(t)
    \/ \E t \in DOMAIN tasks : ModalDelete(t)
    \/ \E t \in DOMAIN tasks : ModalAck(t)

SpecAccept == AcceptInit /\ [][AcceptNext]_vars

(***************************************************************************)
(* Claims about the handlers (checked under Spec)                          *)
(***************************************************************************)
Ended(t) == tasks[t].pc \in {"done", "threw"}
\* the submissions of modals this program presented
ModalTasks == { t \in DOMAIN tasks : tasks[t].kind = "modal" /\ tasks[t].src.msg # 0 }
\* the clicks on a decline button
DeclineTasks ==
    { t \in DOMAIN tasks : tasks[t].kind = "component" /\ tasks[t].src.button = 4 }
DeletedBy(t) == { k \in DOMAIN reports : reports[k].deletedBy = t }
LogsBy(t) == { i \in DOMAIN logs : logs[i].by = t }
ActionsBy(t) == { i \in DOMAIN actions : actions[i].by = t }
Rejected(t) == "createAction:rejected" \in tasks[t].effects

\* a submission m and a decline click d for the same report that both arrived
\* while the report was there (so both were in flight at once), with no
\* deletion by hand and no failure of the moderation API
Race(m, d) ==
    /\ tasks[m].src.msg = tasks[d].msg
    /\ ~tasks[m].goneAtStart /\ ~tasks[d].goneAtStart
    /\ reports[tasks[d].msg].deletedBy # -1
    /\ ~Rejected(m)
    /\ tasks[m].threwAt \notin {"logs.send", "parseRelativeTime"}
    /\ tasks[d].threwAt # "logs.send"

\* C1: when a modal submission and a decline click for the same report are
\* handled concurrently, no unhandled failure crashes the process, and once
\* both have ended exactly one of them has deleted the report and the other
\* has told its reviewer that the message was not found.
C1_AcceptDeclineRace ==
    \A m \in ModalTasks, d \in DeclineTasks :
        Race(m, d) =>
            /\ tasks[m].pc # "threw" /\ tasks[d].pc # "threw"
            /\ (Ended(m) /\ Ended(d)) =>
                \/ /\ DeletedBy(m) = {tasks[d].msg} /\ DeletedBy(d) = {}
                   /\ tasks[d].reply = "message_not_found"
                \/ /\ DeletedBy(d) = {tasks[d].msg} /\ DeletedBy(m) = {}
                   /\ tasks[m].reply = "message_not_found"

\* the submission found its report gone, at the lookup or at the deletion
LostAnchor(m) ==
    \/ "messages.fetch" \in tasks[m].effects /\ tasks[m].found = 0
    \/ "message.delete" \in tasks[m].effects /\ DeletedBy(m) = {}

\* C2: whenever a modal submission is handled and its report message no
\* longer exists, the submission does not end in an unhandled exception and
\* the acting reviewer gets a visible error.
C2_LostAnchorVisibleError ==
    \A m \in ModalTasks :
        LostAnchor(m) =>
            /\ tasks[m].pc # "threw"
            /\ Ended(m) => tasks[m].reply = "message_not_found"

\* C3: a decline click on a report whose message was already removed gives
\* the clicking reviewer a visible error, posts no log entry and attempts no
\* deletion.
C3_DeclineOnRemoved ==
    \A d \in DeclineTasks :
        tasks[d].goneAtStart =>
            /\ LogsBy(d) = {}
            /\ "message.delete" \notin tasks[d].effects
            /\ tasks[d].pc # "threw"
            /\ Ended(d) => tasks[d].reply = "message_not_found"

\* no other reviewer acts on the report of submission m, nobody deletes it by
\* hand, neither the moderation API nor the log channel fails, and the modal
\* submitted is the one of lines 278-325, with its duration field
Alone(m) ==
    /\ tasks[m].input.duration # AbsentField
    /\ tasks[m].threwAt # "logs.send"
    /\ reports[tasks[m].src.msg].deletedBy \in {0, m}
    /\ \A o \in (ModalTasks \cup DeclineTasks) \ {m} :
            tasks[o].src.msg # tasks[m].src.msg
    /\ ~Rejected(m)

\* C4: for a report of a resolvable username, with no concurrent reviewer and
\* no collaborator failure, the submission of the modal of the accept button
\* of type T records exactly one Action Request, with the subject id the
\* report command resolved as target, T as type and the submitting reviewer
\* as actor (and duration 3600 for MUTE and "1h"); after that an Accepted log
\* entry with the report's title and URL is posted and the report the button
\* was clicked on, and no other, is deleted; the submission never fails.
C4_EndToEndAccept ==
    \A m \in ModalTasks :
        Alone(m) =>
            LET k == tasks[m].src.msg
                T == ButtonTypes[tasks[m].src.button]
                resolved == UserIds[tasks[reports[k].sentBy].input.username]
            IN  /\ tasks[m].pc # "threw"
                /\ IF "createAction" \in tasks[m].effects
                   THEN /\ Cardinality(ActionsBy(m)) = 1
                        /\ \A i \in ActionsBy(m) :
                            /\ actions[i].target = Num(resolved)
                            /\ actions[i].type = T
                            /\ actions[i].actor = tasks[m].user
                            /\ (T = S_MUTE /\ tasks[m].input.duration = S_1h)
                                    => actions[i].duration = Num(3600)
                   ELSE ActionsBy(m) = {}
                /\ IF "logs.send" \in tasks[m].effects
                   THEN /\ Cardinality(LogsBy(m)) = 1
                        /\ ActionsBy(m) # {}
                        /\ \A i \in LogsBy(m) :
                            /\ logs[i].kind = "Accepted"
                            /\ logs[i].title = reports[k].title
                            /\ logs[i].url = reports[k].url
                   ELSE LogsBy(m) = {}
                /\ DeletedBy(m) \subseteq {k}
                /\ DeletedBy(m) = {k} => LogsBy(m) # {}
                /\ tasks[m].pc = "done" => DeletedBy(m) = {k}

C4_Witness ==
    \E m \in ModalTasks :
        /\ Alone(m) /\ tasks[m].pc = "done" /\ tasks[m].reply = "ack"
        /\ tasks[m].src.button = 3 /\ tasks[m].input.duration = S_1h
        /\ \E i \in ActionsBy(m) : actions[i].duration = Num(3600)
        /\ \E k \in DOMAIN reports : k # tasks[m].src.msg /\ Exists(k)

\* C5: if createAction fails during a modal submission, that submission
\* posts no log entry, does not delete the report and does not acknowledge
\* the modal.
C5_CollaboratorFailure ==
    \A m \in DOMAIN tasks :
        Rejected(m) =>
            /\ LogsBy(m) = {}
            /\ DeletedBy(m) = {}
            /\ ActionsBy(m) = {}
            /\ tasks[m].reply # "ack"
            /\ tasks[m].effects \cap {"messages.fetch", "logs.send", "message.delete", "ack"} = {}

C5_Witness ==
    \E m \in ModalTasks :
        /\ Rejected(m) /\ tasks[m].pc = "threw"
        /\ Exists(tasks[m].src.msg)

\* C6: a component click or a modal submission whose identifier fails
\* decodeFragment has no external effect: no fetch, no log entry, no
\* deletion, no moderation action, no response.
C6_MalformedIgnored ==
    \A t \in DOMAIN tasks :
        (tasks[t].kind \in {"component", "modal"} /\ ~decodeFragment(tasks[t].customId).matched)
            => /\ tasks[t].effects = {}
               /\ tasks[t].reply = "none"
               /\ LogsBy(t) = {} /\ DeletedBy(t) = {} /\ ActionsBy(t) = {}
               /\ tasks[t].pc = "done"

C6_Witness ==
    \E c, m \in DOMAIN tasks :
        /\ tasks[c].kind = "component" /\ tasks[m].kind = "modal"
        /\ ~decodeFragment(tasks[c].customId).matched
        /\ ~decodeFragment(tasks[m].customId).matched
        /\ tasks[c].pc = "done" /\ tasks[m].pc = "done"
        /\ \E k \in DOMAIN reports : Exists(k)

(***************************************************************************)
(* Claims about the codec (checked under SpecCodec)                        *)
(***************************************************************************)
WordName(n) == n # <<>> /\ \A i \in DOMAIN n : n[i] \in WordChars
NoneHas(args, chars) == \A i \in DOMAIN args : \A j \in DOMAIN args[i] : args[i][j] \notin chars
RoundTripped ==
    fragOut = [matched |-> TRUE, name |-> fragIn.name, args |-> fragIn.args]

\* C7 as stated: for every name matching \w+ and every argument sequence whose
\* arguments contain no comma, decodeFragment(encodeFragment(name, ...args))
\* returns the same name and the same arguments in the same order.
C7_RoundTripAnyArgs ==
    (/\ fragPc = "decoded" /\ fragIn.given
     /\ WordName(fragIn.name)
     /\ NoneHas(fragIn.args, {","}))
        => RoundTripped

\* C7, amended: the round trip holds for every name matching \w+ and every
\* argument sequence whose arguments contain no comma and no line terminator
\* and whose joined text is not empty (the sequence is neither empty nor the
\* single empty string).
C7_RoundTrip ==
    (/\ fragPc = "decoded" /\ fragIn.given
     /\ WordName(fragIn.name)
     /\ NoneHas(fragIn.args, {","} \cup LineTerminators)
     /\ JoinWith(fragIn.args, << "," >>) # <<>>)
        => RoundTripped

C7_Witness ==
    /\ fragPc = "decoded" /\ fragIn.given
    /\ fragIn.name = S_accept
    /\ fragIn.args = << << "a" >>, << "(", ")" >> >>
    /\ RoundTripped

NoParens(s) == \A i \in DOMAIN s : s[i] \notin {"(", ")"}
\* the number of "(" minus the number of ")" in s
RECURSIVE Depth(_)
Depth(s) ==
    IF s = <<>> THEN 0
    ELSE Depth(SubSeq(s, 1, Len(s) - 1))
            + (IF s[Len(s)] = "(" THEN 1 ELSE IF s[Len(s)] = ")" THEN -1 ELSE 0)
Balanced(s) == Depth(s) = 0 /\ \A k \in 1..Len(s) : Depth(SubSeq(s, 1, k)) >= 0
\* name(): a name of word characters and an empty argument group
EmptyGroup(s) ==
    /\ Len(s) >= 3
    /\ PrefixLen(s, WordChars) = Len(s) - 2
    /\ s[Len(s) - 1] = "(" /\ s[Len(s)] = ")"

\* C8 as stated: decodeFragment returns no match for the empty string, for a
\* string with no parentheses, for every string whose parentheses are
\* unbalanced, and for name() with an empty argument group.
C8_NoMatchAnyUnbalanced ==
    (/\ fragPc = "decoded"
     /\ \/ fragData = <<>>
        \/ NoParens(fragData)
        \/ ~Balanced(fragData)
        \/ EmptyGroup(fragData))
        => fragOut = NoMatch

\* C8, amended: decodeFragment returns no match for the empty string, for a
\* string with no parentheses, for name() with an empty argument group, and
\* for a string with unbalanced parentheses that has no "(" or does not end
\* in ")" (an unbalanced string such as a(() does match).
C8_NoMatch ==
    (/\ fragPc = "decoded"
     /\ \/ fragData = <<>>
        \/ NoParens(fragData)
        \/ /\ ~Balanced(fragData)
           /\ \/ \A i \in DOMAIN fragData : fragData[i] # "("
              \/ fragData[Len(fragData)] # ")"
        \/ EmptyGroup(fragData))
        => fragOut = NoMatch

C8_Witness ==
    /\ fragPc = "decoded"
    /\ fragData = << "a", "(", "a" >>
    /\ fragOut = NoMatch

(***************************************************************************)
(* Claims about the parser (checked under SpecTime)                        *)
(***************************************************************************)
KnownUnits(g) == \A i \in DOMAIN g.tokens : Key(g.tokens[i].unit) \in DOMAIN relativeTimeUnits
RECURSIVE TokenSum(_)
TokenSum(tl) ==
    IF tl = <<>> THEN 0
    ELSE Head(tl).n * relativeTimeUnits[Key(Head(tl).unit)] + TokenSum(Tail(tl))

\* the part of C9 that does not depend on the total of "1d 2h"
C9_SumRule ==
    /\ (/\ timeGen.given /\ KnownUnits(timeGen)
        /\ (Len(timeGen.tokens) > 1 => timeGen.sep # <<>>))
            => timeOut = Num(TokenSum(timeGen.tokens))
    /\ timeIn = << "1","d" >> => timeOut = Num(86400)
    /\ timeIn = << "2","w" >> => timeOut = Num(1209600)
    /\ timeIn = << "1","D" >> => timeOut = Num(86400)
    /\ timeIn = << "1","d"," ","1","d" >> => timeOut = Num(172800)
    /\ timeIn = S_5foos => timeOut = Null
    /\ timeIn = <<>> => timeOut = Null

\* C9 as stated: an input of one or more whitespace-separated <integer><unit>
\* tokens whose units are all in the table, in any letter case, parses to the
\* sum of integer * multiplier over the tokens (repeated units add up, the
\* order does not matter); "1d" -> 86400, "1d 2h" -> 90000, "2w" -> 1209600,
\* "1D" -> 86400, "1d 1d" -> 172800, and "5 foos" and "" fail.
C9_DurationSumAsStated ==
    timePc = "parsed" =>
        /\ C9_SumRule
        /\ timeIn = << "1","d"," ","2","h" >> => timeOut = Num(90000)

\* C9, amended: the same, with "1d 2h" -> 93600 (86400 + 2 * 3600).
C9_DurationSum ==
    timePc = "parsed" =>
        /\ C9_SumRule
        /\ timeIn = << "1","d"," ","2","h" >> => timeOut = Num(93600)

C9_Witness ==
    /\ timePc = "parsed"
    /\ timeGen.given /\ timeGen.upper
    /\ timeIn = << "1","D","A","Y","S","\t","2","H" >>
    /\ timeOut = Num(93600)

\* C10: a sequence of <integer><unit> tokens with recognised units parses to
\* the same total whether the tokens are separated by whitespace or written
\* directly one after another ("1d2h" gives 90000 as "1d 2h" does).
C10_OptionalWhitespace ==
    (/\ timePc = "parsed"
     /\ timeGen.given /\ KnownUnits(timeGen))
        => timeOut = Num(TokenSum(timeGen.tokens))

\* the input has no <digits><word> match, or the word of some match is not a
\* key of the unit table once lower-cased
NotAllKnown(input) ==
    LET ms == relativeTimeRegex(ToLowerCase(input))
    IN  \/ ms = <<>>
        \/ \E i \in DOMAIN ms : Key(ms[i][2]) \notin DOMAIN relativeTimeUnits

\* C11: for every input with no <digits><word> match, or with a match whose
\* word is not a key of the unit table (case-insensitively),
\* parseRelativeTime returns null and never a number.
C11_AllOrNothing ==
    (timePc = "parsed" /\ NotAllKnown(timeIn)) => timeOut = Null

\* what parseRelativeTime makes of the duration field of submission m
Parsed(m) == parseRelativeTime(tasks[m].input.duration)

\* C12: on modal submission, if the duration field is absent or
\* parseRelativeTime fails on it, the Action Request is still issued, with no
\* duration; if the parse succeeds, the request carries the parsed number of
\* seconds.
C12_DurationInRequest ==
    \A m \in ModalTasks :
        /\ tasks[m].threwAt # "parseRelativeTime"
        /\ ("createAction" \in tasks[m].effects /\ ~Rejected(m)) =>
              /\ Cardinality(ActionsBy(m)) = 1
              /\ \A i \in ActionsBy(m) :
                    actions[i].duration =
                        IF tasks[m].input.duration = AbsentField \/ Parsed(m) = Null
                        THEN Undefined
                        ELSE Parsed(m)

\* C12 for the submissions that carry the duration field
DurationWhenPresent ==
    \A m \in ModalTasks :
        (tasks[m].input.duration # AbsentField /\ "createAction" \in tasks[m].effects /\ ~Rejected(m)) =>
              /\ Cardinality(ActionsBy(m)) = 1
              /\ \A i \in ActionsBy(m) :
                    actions[i].duration = IF Parsed(m) = Null THEN Undefined ELSE Parsed(m)

CommandTasks == { t \in DOMAIN tasks : tasks[t].kind = "command" }
\* the report messages command t posted
SentBy(t) == { k \in DOMAIN reports : reports[k].sentBy = t }

\* C13: a report command whose attachment has exactly 25,000,000 bytes is
\* not answered with the size error and goes on to the username and profile
\* lookups; one with more bytes is answered with the size error and makes no
\* downstream call: no username lookup, no profile fetch, no download, no
\* report message.
C13_SizeCeiling ==
    \A t \in CommandTasks :
        /\ tasks[t].input.size = 25000000 =>
              /\ tasks[t].reply # "size_error"
              /\ tasks[t].pc # "deferReply" =>
                    \/ tasks[t].pc = "getIdFromUsername"
                    \/ "getIdFromUsername" \in tasks[t].effects
              /\ (tasks[t].input.username \in DOMAIN UserIds
                    /\ tasks[t].pc \notin {"deferReply", "getIdFromUsername"}) =>
                    \/ tasks[t].pc = "getPlayerInfo"
                    \/ "getPlayerInfo" \in tasks[t].effects
        /\ tasks[t].input.size >= 25000001 =>
              /\ tasks[t].pc \in {"deferReply", "done"}
              /\ tasks[t].pc = "done" => tasks[t].reply = "size_error"
              /\ tasks[t].effects \subseteq {"deferReply"}
              /\ SentBy(t) = {}

C13_Witness ==
    \E a, b \in CommandTasks :
        /\ tasks[a].input.size = 25000000 /\ "getPlayerInfo" \in tasks[a].effects
        /\ SentBy(a) # {}
        /\ tasks[b].input.size = 25000001 /\ tasks[b].reply = "size_error"

\* the command was answered with a user input error
InputError(t) == tasks[t].reply \in {"invalid_username", "profile_error"}

\* what holds of a command in every state (C14)
C14_State ==
    \A t \in CommandTasks :
        /\ InputError(t) =>
              /\ tasks[t].pc = "done"
              /\ SentBy(t) = {}
              /\ tasks[t].effects \cap {"downloadAttachment", "channel.send"} = {}
        /\ (tasks[t].input.username \notin DOMAIN UserIds
              /\ "getIdFromUsername" \in tasks[t].effects) =>
              tasks[t].reply = "invalid_username"
        /\ ("getPlayerInfo" \in tasks[t].effects
              /\ tasks[t].pc \notin {"downloadAttachment", "channel.send", "threw"}
              /\ tasks[t].reply # "sent") =>
              tasks[t].reply = "profile_error"
        /\ SentBy(t) # {} => tasks[t].reply = "sent"

\* C14: when the username does not resolve or the profile fetch fails, the
\* submitting user gets the error reply, no report message is ever posted for
\* that command, and the command does nothing more (no retry): from then on
\* its task never changes.
C14_InputErrors ==
    /\ []C14_State
    /\ [][\A t \in CommandTasks :
            InputError(t) => /\ tasks'[t] = tasks[t]
                             /\ \A k \in DOMAIN reports' : reports'[k].sentBy # t]_vars

C14_Witness ==
    \E a, b \in CommandTasks :
        /\ tasks[a].reply = "invalid_username" /\ tasks[b].reply = "profile_error"
        /\ Len(tasks) > 2

\* the text name(a) or name(a,b), written out
Written(name, args) ==
    name \o << "(" >> \o args[1]
         \o (IF Len(args) = 2 THEN << "," >> \o args[2] ELSE << >>) \o << ")" >>
Decoded(name, args) == [matched |-> TRUE, name |-> name, args |-> args]

\* C15: every report message posted carries exactly four identifiers,
\* accept(id,BAN), accept(id,DRAWBAN), accept(id,MUTE) and decline(id), with
\* id the subject id resolved from the username the command was given, and
\* each decodes to its name and its argument list (two arguments for accept,
\* one for decline).
C15_FourIdentifiers ==
    \A k \in DOMAIN reports :
        LET id == toString(UserIds[tasks[reports[k].sentBy].input.username])
            ids == reports[k].customIds
        IN  /\ Len(ids) = 4
            /\ ids[1] = Written(S_accept, << id, S_BAN >>)
            /\ ids[2] = Written(S_accept, << id, S_DRAWBAN >>)
            /\ ids[3] = Written(S_accept, << id, S_MUTE >>)
            /\ ids[4] = Written(S_decline, << id >>)
            /\ decodeFragment(ids[1]) = Decoded(S_accept, << id, S_BAN >>)
            /\ decodeFragment(ids[2]) = Decoded(S_accept, << id, S_DRAWBAN >>)
            /\ decodeFragment(ids[3]) = Decoded(S_accept, << id, S_MUTE >>)
            /\ decodeFragment(ids[4]) = Decoded(S_decline, << id >>)

C15_Witness ==
    \E k \in DOMAIN reports :
        /\ Exists(k)
        /\ reports[k].customIds[4] = << "d","e","c","l","i","n","e","(","4","2",")" >>
        /\ tasks[reports[k].sentBy].reply = "sent"

\* the three values a modal opened from button b of report k must carry:
\* the two the button's identifier decodes to, then the id of message k
Threaded(k, b) ==
    decodeFragment(reports[k].customIds[b]).args \o << MsgId(k) >>

\* C16: the modal presented for a click on an accept button has the
\* identifier accept(subjectId,actionType,originMessageId), with the
\* subjectId and actionType the button's identifier decodes to and the id of
\* the message the button was clicked on; on submission decodeFragment gives
\* back these three values in this order, and they are the id, type and
\* message the handler uses.
C16_OriginThreaded ==
    /\ \A m \in modals :
          LET a == Threaded(m.src.msg, m.src.button)
          IN  /\ m.src.button \in 1..3
              /\ Len(a) = 3
              /\ m.custom_id = S_accept \o << "(" >> \o a[1] \o << "," >> \o a[2]
                                        \o << "," >> \o a[3] \o << ")" >>
              /\ decodeFragment(m.custom_id) = Decoded(S_accept, a)
    /\ \A t \in ModalTasks :
          LET a == Threaded(tasks[t].src.msg, tasks[t].src.button)
          IN  /\ tasks[t].fragment = Decoded(S_accept, a)
              /\ Arg(tasks[t].fragment.args, 1) = toString(reports[tasks[t].src.msg].subject)
              /\ Arg(tasks[t].fragment.args, 2) = ButtonTypes[tasks[t].src.button]
              /\ FindMessage(Arg(tasks[t].fragment.args, 3)) = tasks[t].src.msg
              /\ tasks[t].found \in {0, tasks[t].src.msg}

C16_Witness ==
    \E t \in ModalTasks :
        /\ tasks[t].src.msg = 2 /\ tasks[t].found = 2 /\ Exists(1)
        /\ tasks[t].fragment.args = << << "4","2" >>, S_MUTE, << "9","2" >> >>

\* the kind of log entry the transition of task t posts
LogKind(t) == IF tasks[t].kind = "modal" THEN "Accepted" ELSE "Declined"

\* C17: in the decline click and in the modal submission the report message
\* is deleted only after that transition has posted its log entry, and the
\* modal is acknowledged only after the deletion: every report message this
\* program deleted has a log entry of the transition that deleted it
\* (Declined for a click, Accepted for a submission), and a transition whose
\* log entry failed to post has not deleted and does not go on to delete.
C17_LogBeforeDelete ==
    /\ \A k \in DOMAIN reports :
          reports[k].deletedBy > 0 =>
              \E i \in DOMAIN logs :
                  /\ logs[i].by = reports[k].deletedBy
                  /\ logs[i].msg = k
                  /\ logs[i].kind = LogKind(reports[k].deletedBy)
    /\ \A t \in DOMAIN tasks :
          /\ "message.delete" \in tasks[t].effects => LogsBy(t) # {}
          /\ tasks[t].pc = "message.delete" => LogsBy(t) # {}
          /\ (tasks[t].pc = "ack" \/ "ack" \in tasks[t].effects) =>
                DeletedBy(t) = {tasks[t].src.msg}
          /\ tasks[t].threwAt = "logs.send" =>
                /\ LogsBy(t) = {} /\ DeletedBy(t) = {}
                /\ "message.delete" \notin tasks[t].effects
                /\ tasks[t].pc = "threw"

C17_Witness ==
    \E a, b \in DOMAIN tasks :
        /\ DeletedBy(a) # {} /\ LogsBy(a) # {}
        /\ tasks[b].threwAt = "logs.send" /\ Exists(tasks[b].found)

\* the clicks on an accept button
AcceptClicks ==
    { t \in DOMAIN tasks : tasks[t].kind = "component" /\ tasks[t].src.button \in 1..3 }

\* what holds in every state (C18)
C18_State ==
    /\ \A i \in DOMAIN actions : tasks[actions[i].by].kind = "modal"
    /\ \A t \in DOMAIN tasks :
          tasks[t].kind \in {"command", "component"} =>
              /\ ActionsBy(t) = {}
              /\ "createAction" \notin tasks[t].effects
    /\ \A t \in AcceptClicks :
          /\ LogsBy(t) = {} /\ DeletedBy(t) = {}
          /\ tasks[t].effects \subseteq {"channels.fetch", "modal.post"}

\* C18: a moderation action is recorded only by a modal submission; the
\* report command, an accept click and a decline click never call
\* createAction, and an accept click changes nothing else either: the step
\* that presents the modal leaves the report messages, the log and the
\* actions as they are, so a report stays Pending while a modal is open.
C18_OnlySubmissionSanctions ==
    /\ []C18_State
    /\ [][(\E t \in DOMAIN tasks : tasks[t].kind # "modal" /\ tasks'[t] # tasks[t])
            => actions' = actions]_vars
    /\ [][modals' # modals /\ modals \subseteq modals'
            => UNCHANGED << reports, logs, actions >>]_vars

C18_Witness ==
    /\ \E t \in AcceptClicks : tasks[t].reply = "modal" /\ Exists(tasks[t].msg)
    /\ modals # {}
    /\ actions # << >>

\* the log entries posted for report k
LogsFor(k) == { i \in DOMAIN logs : logs[i].msg = k }

\* C19: over every interleaving of decline clicks and modal submissions on
\* the same report message, the log channel receives at most one entry
\* (Accepted or Declined) for that report.
C19_OneLogEntry ==
    \A k \in DOMAIN reports : Cardinality(LogsFor(k)) <= 1

\* the actions recorded for report k
ActionsFor(k) == { i \in DOMAIN actions : tasks[actions[i].by].src.msg = k }

\* C20: over every sequence of accept clicks and modal submissions on the
\* same report message, at most one action is recorded for that report, and
\* every recorded action has an Accepted log entry posted by the submission
\* that recorded it (once that submission has ended, the log channel not
\* having failed).
C20_OneSanction ==
    /\ \A k \in DOMAIN reports : Cardinality(ActionsFor(k)) <= 1
    /\ \A m \in ModalTasks :
          (Ended(m) /\ ActionsBy(m) # {} /\ tasks[m].threwAt # "logs.send") =>
              \E i \in LogsBy(m) : logs[i].kind = "Accepted"

\* C21: once a report message has been deleted by a decline click or a modal
\* submission, no later event for that report records a moderation action (a
\* modal submitted after the deletion records none), and no report has both
\* a Declined log entry and a moderation action recorded for it.
C21_TerminalAbsorbing ==
    /\ \A m \in ModalTasks :
          (tasks[m].goneAtStart /\ reports[tasks[m].src.msg].deletedBy > 0) =>
              ActionsBy(m) = {}
    /\ \A k \in DOMAIN reports :
          ~ /\ \E i \in LogsFor(k) : logs[i].kind = "Declined"
            /\ ActionsFor(k) # {}

====
